---- MODULE Spec2Model ----
(***************************************************************************)
(* Distributed sparse matrix-vector product of vexcl (vexcl/spmat.hpp):    *)
(* the partitioner, the exchange planner (SpMat::setup_exchange), the two  *)
(* per-device engines (SpMatELL, SpMatCSR) with their kernels, and the     *)
(* multiply orchestrator (SpMat::mul) with its per-device in-order primary *)
(* and secondary command queues and completion events.                     *)
(*                                                                         *)
(* Vectors (std::vector, device buffers) are functions over 0..len-1, as   *)
(* in the source; command queues are sequences.                            *)
(***************************************************************************)
EXTENDS Integers, Sequences, FiniteSets, TLC

\* ------------------------------------------------------------------ bounds
\* devices (queue.size()) range over 1..MaxDev
MaxDev == 2
\* rows of the matrix range over 1..MaxN in the multiply specifications
MaxN == 2
\* rows of the matrix range over 1..MaxBuildN in the construction specification
MaxBuildN == 3
\* devices handed to the partitioner range over 1..MaxPartDev
MaxPartDev == 3
\* SpMatCCSR matrices have 1..MaxCcsrN rows and mul is called up to MaxCcsrCalls times
MaxCcsrN == 3
MaxCcsrCalls == 2
\* execution contexts are numbered 1..MaxCtx and up to MaxObjects matrices are built
MaxCtx == 2
\* rows of the matrices of the two-device exchange specification
HaloN == 3
MaxObjects == 3
\* rows handed to the partitioner range over 0..MaxPartN
MaxPartN == 40
\* device weights handed to the partitioner range over 1..MaxWeight
MaxWeight == 3

\* ------------------------------------------------------- program constants
\* alignment granularity: alignup(n, 16U)
ALIGN == 16
\* SpMatELL::ncol, the padding column (column_t)(-1)
ncol == -1

\* marks a device buffer slot that was allocated and never written
UNDEF == -1000
\* values an unwritten device buffer slot may turn out to hold
UninitVals == {0, 7}

VARIABLES
    nd,          \* queue.size(): number of devices
    devtype,     \* CL_DEVICE_TYPE of each device
    n, row, col, val,   \* the constructor's CSR matrix
    part,        \* SpMat::part, nd + 1 row boundaries
    mtx,         \* SpMat::mtx: the engine of each device, or NoEngine
    exc,         \* SpMat::exc: the exchange data of each device
    cidx,        \* SpMat::cidx
    rx,          \* SpMat::rx: the host staging array
    tlist,       \* setup_exchange's cols_to_send before the shift to local numbering
    remote_cols, \* setup_exchange's result
    x, y,        \* the vex::vectors of the statement: one buffer per device
    script,      \* the caller's remaining statements
    stmt,        \* the arguments of the running or last call of mul
    y0,          \* y before the first statement
    queue,       \* primary queue of each device: commands not yet executed
    squeue,      \* secondary queue of each device
    event1, event2,  \* SpMat::event1[d][0], SpMat::event2[d][0]
    complete,    \* the events that are complete
    ncall,       \* number of statements issued so far
    hist,        \* the statements issued so far
    pc, hd,      \* where the host is, and its loop variable d
    pn, pw, ppart,  \* the partitioner's n, the devices' weights, its result
    nnz,         \* number of entries in the arrays the caller passed as col and val
    cmp,         \* outputs of the two engines of one device on the same arguments
    ccsr,        \* an SpMatCCSR object, its vectors and its queue
    cache        \* the static maps compiled[context] of the four classes, and the objects built

vars == <<nd, devtype, n, row, col, val, part, mtx, exc, cidx, rx, tlist,
          remote_cols, x, y, script, stmt, y0, queue, squeue, event1, event2,
          complete, ncall, hist, pc, hd, pn, pw, ppart, nnz, cmp, ccsr, cache>>

\* ----------------------------------------------------------------- helpers
Size(v) == Cardinality(DOMAIN v)

EmptyVec == [i \in {} |-> 0]

Fill(len, v) == [i \in 0..(len - 1) |-> v]

Max(a, b) == IF a >= b THEN a ELSE b

Min(a, b) == IF a <= b THEN a ELSE b

RECURSIVE SumOver(_, _)
SumOver(f, S) ==
    IF S = {} THEN 0
    ELSE LET s == CHOOSE s \in S : TRUE IN f[s] + SumOver(f, S \ {s})

\* the elements of a std::set in iteration (ascending) order
SortedVec(S) ==
    [i \in 0..(Cardinality(S) - 1) |->
        CHOOSE c \in S : Cardinality({b \in S : b < c}) = i]

\* util.hpp alignup(n, m)
alignup(k, m) == IF (k % m) # 0 THEN (k - (k % m)) + m ELSE k

Devs == 0..(nd - 1)

\* ------------------------------------------------ SpMat::setup_exchange
\* (mutant) the positions of row i that lie inside the caller's arrays
RowRangeChecked(i) == row[i]..(Min(row[i + 1], nnz) - 1)

\* positions j of row i in col and val
RowRange(i) == row[i]..(row[i + 1] - 1)

\* (mutant) ghost points looked for below the device's rows only
RemoteColsOfBelow(d) ==
    {col[j] : j \in {jj \in 0..(Size(col) - 1) :
                \E i \in part[d]..(part[d + 1] - 1) :
                    /\ jj \in RowRange(i)
                    /\ col[jj] < part[d]}}

\* (mutant) every column of the device's rows taken as a ghost point
RemoteColsOfAll(d) ==
    {col[j] : j \in {jj \in 0..(Size(col) - 1) :
                \E i \in part[d]..(part[d + 1] - 1) : jj \in RowRange(i)}}

\* the ghost points of device d
RemoteColsOf(d) ==
    {col[j] : j \in {jj \in 0..(Size(col) - 1) :
                \E i \in part[d]..(part[d + 1] - 1) :
                    /\ jj \in RowRange(i)
                    /\ (col[jj] < part[d] \/ col[jj] >= part[d + 1])}}

RECURSIVE Concat(_, _)
Concat(rc, k) ==
    IF k = 0 THEN << >>
    ELSE Concat(rc, k - 1)
            \o [i \in 1..Cardinality(rc[k - 1]) |-> SortedVec(rc[k - 1])[i - 1]]

\* (mutant) the ghost sets appended one after the other, not merged in a set
ColsToSendAppended(rc) == [i \in 0..(Len(Concat(rc, nd)) - 1) |-> Concat(rc, nd)[i + 1]]

\* (mutant) every column exchanged
ColsToSendAll(rc) == SortedVec(0..(n - 1))

\* the complete set of points to be exchanged, in ascending order
ColsToSend(rc) == SortedVec(UNION {rc[d] : d \in Devs})

\* (mutant) cols_to_recv without the membership test: the first positions
ColsToRecvNoTest(cts, rcd) == SortedVec(0..(Cardinality(rcd) - 1))

\* cols_to_recv of device d: the positions of its ghost points in cols_to_send
ColsToRecv(cts, rcd) ==
    SortedVec({i \in 0..(Size(cts) - 1) : cts[i] \in rcd})

\* (mutant) std::upper_bound in place of std::lower_bound
UpperBound(v, beg, key) ==
    CHOOSE p \in beg..Size(v) :
        /\ \A q \in beg..(p - 1) : v[q] <= key
        /\ (p = Size(v) \/ v[p] > key)

\* std::lower_bound(begin + beg, end, key) - begin, on an ascending vector
LowerBound(v, beg, key) ==
    CHOOSE p \in beg..Size(v) :
        /\ \A q \in beg..(p - 1) : v[q] < key
        /\ (p = Size(v) \/ v[p] >= key)

RECURSIVE CidxAt(_, _)
CidxAt(cts, d) ==
    LowerBound(cts, IF d = 0 THEN 0 ELSE CidxAt(cts, d - 1), part[d])

\* cidx: empty when there is nothing to exchange
Cidx(cts) ==
    IF Size(cts) = 0 THEN EmptyVec ELSE [d \in 0..nd |-> CidxAt(cts, d)]

\* (mutant) the send indices left in global numbering
ExDataGlobal(cts, ci, rcd, d) ==
    LET recv == Size(cts) > 0 /\ rcd # {}
        ncols == IF Size(cts) > 0 THEN ci[d + 1] - ci[d] ELSE 0
    IN  [cols_to_recv |-> IF recv THEN ColsToRecv(cts, rcd) ELSE EmptyVec,
         vals_to_recv |-> IF recv THEN Fill(Cardinality(rcd), 0) ELSE EmptyVec,
         rx           |-> IF recv THEN Fill(Cardinality(rcd), UNDEF) ELSE EmptyVec,
         cols_to_send |-> [i \in 0..(ncols - 1) |-> cts[ci[d] + i]],
         vals_to_send |-> Fill(ncols, UNDEF)]

\* the exchange data of device d
ExData(cts, ci, rcd, d) ==
    LET recv == Size(cts) > 0 /\ rcd # {}
        ncols == IF Size(cts) > 0 THEN ci[d + 1] - ci[d] ELSE 0
    IN  [cols_to_recv |-> IF recv THEN ColsToRecv(cts, rcd) ELSE EmptyVec,
         vals_to_recv |-> IF recv THEN Fill(Cardinality(rcd), 0) ELSE EmptyVec,
         rx           |-> IF recv THEN Fill(Cardinality(rcd), UNDEF) ELSE EmptyVec,
         cols_to_send |-> [i \in 0..(ncols - 1) |-> cts[ci[d] + i] - part[d]],
         vals_to_send |-> Fill(ncols, UNDEF)]

\* SpMat::setup_exchange: remote_cols, cols_to_send (before the shift), cidx,
\* exc and the size of rx
setup_exchange ==
    LET rc  == [d \in Devs |-> RemoteColsOf(d)]
        cts == ColsToSend(rc)
        ci  == Cidx(cts)
    IN  [remote_cols  |-> rc,
         cols_to_send |-> cts,
         cidx         |-> ci,
         exc          |-> [d \in Devs |-> ExData(cts, ci, rc[d], d)],
         rx           |-> Fill(Size(cts), 0)]

\* ------------------------------------------------------------ the engines
NoEngine == [kind |-> "none"]

IsLocal(c, beg, end) == c >= beg /\ c < end

\* positions of the local, and of the remote, nonzeros of row i, in order
LocalJ(i, beg, end) ==
    SortedVec({j \in RowRange(i) : IsLocal(col[j], beg, end)})

RemoteJ(i, beg, end) ==
    SortedVec({j \in RowRange(i) : ~IsLocal(col[j], beg, end)})

\* (mutant) r2l numbering every remote column 0
R2LZero(rcd) == [c \in rcd |-> 0]

\* (mutant) r2l numbering the remote columns from the largest down
R2LDescending(rcd) == [c \in rcd |-> Cardinality({b \in rcd : b > c})]

\* r2l: the ghost number of each remote column
R2L(rcd) == [c \in rcd |-> Cardinality({b \in rcd : b < c})]

RECURSIVE MaxOver(_, _)
MaxOver(f, S) ==
    IF S = {} THEN 0
    ELSE LET s == CHOOSE s \in S : TRUE IN Max(f[s], MaxOver(f, S \ {s}))

\* (mutant) loc.w taken from the first row of the strip alone
EllLocWFirstRow(beg, end) == Size(LocalJ(beg, beg, end))

\* loc.w and rem.w
EllLocW(beg, end) ==
    MaxOver([i \in beg..(end - 1) |-> Size(LocalJ(i, beg, end))], beg..(end - 1))

\* (mutant) rem.w taken from the local widths
EllRemWAsLoc(beg, end) ==
    MaxOver([i \in beg..(end - 1) |-> Size(LocalJ(i, beg, end))], beg..(end - 1))

EllRemW(beg, end) ==
    MaxOver([i \in beg..(end - 1) |->
                (row[i + 1] - row[i]) - Size(LocalJ(i, beg, end))],
            beg..(end - 1))

\* slot k + pitch * j of an ELL array: entry j of row beg + k, else the padding
EllSlot(p, pitch, nn, beg, J, entry, pad) ==
    LET k == p % pitch
        j == p \div pitch
    IN  IF k < nn /\ j < Size(J[beg + k]) THEN entry[J[beg + k][j]] ELSE pad

\* SpMatELL::SpMatELL
SpMatELL(beg, end, rcd) ==
    LET nn    == end - beg
        pitch == alignup(nn, ALIGN)
        lw    == EllLocW(beg, end)
        rw    == EllRemW(beg, end)
        r2l   == R2L(rcd)
        nz    == row[beg]..(row[end] - 1)
        LJ    == [i \in beg..(end - 1) |-> LocalJ(i, beg, end)]
        RJ    == [i \in beg..(end - 1) |-> RemoteJ(i, beg, end)]
        lc    == [j \in nz |-> col[j] - beg]
        rcn   == [j \in {jj \in nz : col[jj] \in rcd} |-> r2l[col[j]]]
        v     == [j \in nz |-> val[j]]
    IN  [kind  |-> "ELL", n |-> nn, pitch |-> pitch,
         loc   |-> [w   |-> lw,
                    col |-> [p \in 0..(pitch * lw - 1) |->
                                EllSlot(p, pitch, nn, beg, LJ, lc, ncol)],
                    val |-> [p \in 0..(pitch * lw - 1) |->
                                EllSlot(p, pitch, nn, beg, LJ, v, 0)]],
         rem   |-> [w   |-> rw,
                    col |-> [p \in 0..(pitch * rw - 1) |->
                                EllSlot(p, pitch, nn, beg, RJ, rcn, ncol)],
                    val |-> [p \in 0..(pitch * rw - 1) |->
                                EllSlot(p, pitch, nn, beg, RJ, v, 0)]]]

\* positions of all local (remote) nonzeros of rows beg..upto-1, in order
LocalAllJ(beg, end, upto) ==
    SortedVec({j \in row[beg]..(row[upto] - 1) : IsLocal(col[j], beg, end)})

RemoteAllJ(beg, end, upto) ==
    SortedVec({j \in row[beg]..(row[upto] - 1) : ~IsLocal(col[j], beg, end)})

\* SpMatCSR::SpMatCSR
SpMatCSR(beg, end, rcd) ==
    LET nn  == end - beg
        r2l == R2L(rcd)
        LJ  == LocalAllJ(beg, end, end)
        RJ  == RemoteAllJ(beg, end, end)
    IN  IF beg = 0 /\ rcd = {}
        THEN [kind |-> "CSR", n |-> nn,
              loc  |-> [row |-> [k \in 0..nn |-> row[k]],
                        col |-> [j \in 0..(row[nn] - 1) |-> col[j]],
                        val |-> [j \in 0..(row[nn] - 1) |-> val[j]]],
              rem  |-> [row |-> EmptyVec, col |-> EmptyVec, val |-> EmptyVec]]
        ELSE [kind |-> "CSR", n |-> nn,
              loc  |-> [row |-> [k \in 0..nn |->
                                    Size(LocalAllJ(beg, end, beg + k))],
                        col |-> [p \in 0..(Size(LJ) - 1) |-> col[LJ[p]] - beg],
                        val |-> [p \in 0..(Size(LJ) - 1) |-> val[LJ[p]]]],
              rem  |-> IF rcd # {}
                       THEN [row |-> [k \in 0..nn |->
                                        Size(RemoteAllJ(beg, end, beg + k))],
                             col |-> [p \in 0..(Size(RJ) - 1) |-> r2l[col[RJ[p]]]],
                             val |-> [p \in 0..(Size(RJ) - 1) |-> val[RJ[p]]]]
                       ELSE [row |-> EmptyVec, col |-> EmptyVec, val |-> EmptyVec]]

\* (mutant) an engine built for every device, also one without rows
EngineOfEvery(d, rc) ==
    IF devtype[d] = "CPU"
    THEN SpMatCSR(part[d], part[d + 1], rc[d])
    ELSE SpMatELL(part[d], part[d + 1], rc[d])

\* the engine SpMat::SpMat gives device d
EngineOf(d, rc) ==
    IF part[d + 1] > part[d]
    THEN IF devtype[d] = "CPU"
         THEN SpMatCSR(part[d], part[d + 1], rc[d])
         ELSE SpMatELL(part[d], part[d + 1], rc[d])
    ELSE NoEngine

\* ------------------------------------------------------------ the kernels
\* SpMatELL's spmv_set (add = FALSE) and spmv_add (add = TRUE)
ell_spmv(nn, w, pitch, ecol, evl, xb, yb, alpha, add) ==
    [r \in DOMAIN yb |->
        IF r < nn
        THEN LET term == [j \in 0..(w - 1) |->
                            LET c == ecol[r + j * pitch]
                            IN  IF c # ncol THEN evl[r + j * pitch] * xb[c] ELSE 0]
                 sum  == SumOver(term, 0..(w - 1))
             IN  IF add THEN yb[r] + alpha * sum ELSE alpha * sum
        ELSE yb[r]]

\* SpMatCSR's spmv_set (add = FALSE) and spmv_add (add = TRUE)
csr_spmv(nn, crow, ccol, cval, xb, yb, alpha, add) ==
    [i \in DOMAIN yb |->
        IF i < nn
        THEN LET term == [j \in crow[i]..(crow[i + 1] - 1) |-> cval[j] * xb[ccol[j]]]
                 sum  == SumOver(term, crow[i]..(crow[i + 1] - 1))
             IN  IF add THEN yb[i] + alpha * sum ELSE alpha * sum
        ELSE yb[i]]

\* (mutant) mul_local running spmv_set whatever append is
mul_local_set(m, xb, yb, alpha, append) ==
    IF m.kind = "ELL"
    THEN ell_spmv(m.n, m.loc.w, m.pitch, m.loc.col, m.loc.val, xb, yb, alpha, FALSE)
    ELSE csr_spmv(m.n, m.loc.row, m.loc.col, m.loc.val, xb, yb, alpha, FALSE)

\* sparse_matrix::mul_local: the buffer y(d) after the kernel has run
mul_local(m, xb, yb, alpha, append) ==
    IF m.kind = "ELL"
    THEN ell_spmv(m.n, m.loc.w, m.pitch, m.loc.col, m.loc.val, xb, yb, alpha, append)
    ELSE csr_spmv(m.n, m.loc.row, m.loc.col, m.loc.val, xb, yb, alpha, append)

\* sparse_matrix::mul_remote: always spmv_add, on the ghost buffer
mul_remote(m, ghost, yb, alpha) ==
    IF m.kind = "ELL"
    THEN ell_spmv(m.n, m.rem.w, m.pitch, m.rem.col, m.rem.val, ghost, yb, alpha, TRUE)
    ELSE csr_spmv(m.n, m.rem.row, m.rem.col, m.rem.val, ghost, yb, alpha, TRUE)
\* ------------------------------------------------------------- the inputs
\* a row shape: <<offset from the diagonal, value>> entries; the column of an
\* entry of row i is (i + offset) modulo n
Diag == <<0, 2>>
Right == <<1, -1>>
Left == <<-1, -1>>
Far == <<2, 3>>

MulStencils == {<<Diag>>, <<Right, Diag>>, <<Left, Diag, Right>>}

BuildStencils == MulStencils \cup {<< >>, <<Far, Left, Far>>}

RECURSIVE RowPtr(_, _)
RowPtr(st, i) == IF i = 0 THEN 0 ELSE RowPtr(st, i - 1) + Len(st[i - 1])

\* the CSR matrix whose row i has the shape st[i]
CsrOf(nn, st) ==
    LET rp  == [i \in 0..nn |-> RowPtr(st, i)]
        rof == [j \in 0..(rp[nn] - 1) |->
                  CHOOSE i \in 0..(nn - 1) : rp[i] <= j /\ j < rp[i + 1]]
    IN  [row |-> rp,
         col |-> [j \in 0..(rp[nn] - 1) |->
                    (rof[j] + st[rof[j]][j - rp[rof[j]] + 1][1] + nn) % nn],
         val |-> [j \in 0..(rp[nn] - 1) |-> st[rof[j]][j - rp[rof[j]] + 1][2]]]

\* partition(n, queue) of vector.hpp: any nd + 1 non-decreasing boundaries
\* from 0 to n
Partitions(nn, k) ==
    {p \in [0..k -> 0..nn] :
        /\ p[0] = 0
        /\ p[k] = nn
        /\ \A d \in 0..(k - 1) : p[d] <= p[d + 1]}

\* the buffers of a vex::vector holding the global values g
Slices(g, p, k) ==
    [d \in 0..(k - 1) |-> [i \in 0..(p[d + 1] - p[d] - 1) |-> g[p[d] + i]]]

\* the vectors x and y of the caller
XVec(nn) == [i \in 0..(nn - 1) |-> i + 2]

YVec(nn) == [i \in 0..(nn - 1) |-> 5 - i]

Ones(nn) == [i \in 0..(nn - 1) |-> 1]

Zeros(nn) == [i \in 0..(nn - 1) |-> 0]

\* the vector expression e of  y = e + A * x  and  y = e - A * x
EVec(nn) == [i \in 0..(nn - 1) |-> 3 + i]

\* the statements of a caller: a direct call of mul, or one of the operators
MulStmt(a, b) == [op |-> "mul", alpha |-> a, append |-> b]

OpStmt(o) == [op |-> o, alpha |-> 0, append |-> FALSE]

Alphas == {-1, 2}

Stmts ==
    {MulStmt(a, b) : a \in Alphas, b \in BOOLEAN}
        \cup {OpStmt(o) : o \in {"=", "+=", "-=", "=e+", "=e-"}}

NoStmt == [op |-> "none", alpha |-> 0, append |-> FALSE]

\* ------------------------------------------------------- vector operators
\* vector::operator=(SpMV), operator+=(SpMV), operator-=(SpMV),
\* operator=(ExSpMV) with operator+ and operator-: the arguments given to mul
OpAssign == [alpha |-> 1, append |-> FALSE, expr |-> FALSE]

OpPlusAssign == [alpha |-> 1, append |-> TRUE, expr |-> FALSE]

\* (mutant) operator-= passing alpha = 1
OpMinusAssignPlus == [alpha |-> 1, append |-> TRUE, expr |-> FALSE]

OpMinusAssign == [alpha |-> -1, append |-> TRUE, expr |-> FALSE]

OpAssignExPlus == [alpha |-> 1, append |-> TRUE, expr |-> TRUE]

OpAssignExMinus == [alpha |-> -1, append |-> TRUE, expr |-> TRUE]

MulArgs(s) ==
    CASE s.op = "="   -> OpAssign
      [] s.op = "+="  -> OpPlusAssign
      [] s.op = "-="  -> OpMinusAssign
      [] s.op = "=e+" -> OpAssignExPlus
      [] s.op = "=e-" -> OpAssignExMinus
      [] OTHER        -> [alpha |-> s.alpha, append |-> s.append, expr |-> FALSE]

\* ------------------------------------------------------------ construction
\* SpMat::SpMat: the exchange plan, then one engine per non-empty strip
Construct ==
    /\ pc = "new"
    /\ LET ex == setup_exchange
       IN  /\ remote_cols' = ex.remote_cols
           /\ tlist' = ex.cols_to_send
           /\ cidx' = ex.cidx
           /\ exc' = ex.exc
           /\ rx' = ex.rx
           /\ mtx' = [d \in Devs |-> EngineOf(d, ex.remote_cols)]
    /\ pc' = "idle"
    /\ UNCHANGED <<nd, devtype, n, row, col, val, part, x, y, script, stmt, y0,
                   queue, squeue, event1, event2, complete, ncall, hist, hd,
                   pn, pw, ppart,
                   nnz, cmp, ccsr, cache>>

\* ------------------------------------------------------------- SpMat::mul
\* an enqueued command; its completion event is <<call, op, d>>
\* (mutant) every command given the buffers of device 0
CmdDevZero(op, d, call, wait, alpha, append) ==
    [op |-> op, d |-> 0, call |-> call, wait |-> wait,
     alpha |-> alpha, append |-> append]

Cmd(op, d, call, wait, alpha, append) ==
    [op |-> op, d |-> d, call |-> call, wait |-> wait,
     alpha |-> alpha, append |-> append]

EventOf(c) == <<c.call, c.op, c.d>>

\* a cl::Event no command was given
NoEvent == <<0, "none", 0>>

\* the host's for(d = 0; d < queue.size(); d++): the next iteration, or the
\* code after the loop
Advance(after) ==
    /\ hd' = IF hd + 1 < nd THEN hd + 1 ELSE 0
    /\ pc' = IF hd + 1 < nd THEN pc ELSE after

\* number of columns device d supplies: cidx[d + 1] - cidx[d]
NCols(d) == cidx[d + 1] - cidx[d]

\* the wait-list given to the transfer of vals_to_send: &event1[d]
ReadWaitList(ev1) == {ev1}

\* (mutant) mul_remote enqueued without a wait-list
RemoteWaitListEmpty(ev2) == {}

\* the wait-list given to mul_remote: event2[d]
RemoteWaitList(ev2) == {ev2}

\* (mutant) step 3 waits for no device
WaitsForNone(d) == FALSE

\* (mutant) step 3 waits for the devices that receive columns
WaitsForReceivers(d) == Size(exc[d].cols_to_recv) > 0

\* (mutant) step 3 waits for the first device only
WaitsForFirst(d) == d = 0 /\ cidx[d + 1] > cidx[d]

\* whether step 3 waits for device d: cidx[d + 1] > cidx[d]
WaitsFor(d) == cidx[d + 1] > cidx[d]

\* the caller issues its next statement: the vector operator assigns the
\* expression (if any) and calls mul, which tests rx.size()
Statement ==
    /\ pc = "idle"
    /\ script # << >>
    /\ LET s    == Head(script)
           a    == MulArgs(s)
           own  == {d \in Devs : part[d + 1] > part[d]}
       IN  /\ stmt' = [op |-> s.op, alpha |-> a.alpha, append |-> a.append]
           /\ hist' = Append(hist, s)
           /\ queue' = [d \in Devs |->
                          IF a.expr /\ d \in own
                          THEN Append(queue[d],
                                      Cmd("assign", d, ncall + 1, {}, 0, FALSE))
                          ELSE queue[d]]
    /\ ncall' = ncall + 1
    /\ script' = Tail(script)
    /\ pc' = IF Size(rx) > 0 THEN "gather" ELSE "local"
    /\ hd' = 0
    /\ UNCHANGED <<nd, devtype, n, row, col, val, part, mtx, exc, cidx, rx, tlist,
                   remote_cols, x, y, y0, squeue, event1, event2, complete,
                   pn, pw, ppart,
                   nnz, cmp, ccsr, cache>>

\* (mutant) step 1 with the gather kernel on squeue[d] as well
GatherOnSecondary ==
    /\ pc = "gather"
    /\ IF NCols(hd) > 0
       THEN LET g == Cmd("gather", hd, ncall, {}, 0, FALSE)
                r == Cmd("read", hd, ncall, ReadWaitList(EventOf(g)), 0, FALSE)
            IN  /\ squeue' = [squeue EXCEPT ![hd] = Append(Append(@, g), r)]
                /\ event1' = [event1 EXCEPT ![hd] = EventOf(g)]
                /\ event2' = [event2 EXCEPT ![hd] = EventOf(r)]
                /\ UNCHANGED queue
       ELSE UNCHANGED <<queue, squeue, event1, event2>>
    /\ Advance("local")
    /\ UNCHANGED <<nd, devtype, n, row, col, val, part, mtx, exc, cidx, rx, tlist,
                   remote_cols, x, y, script, stmt, y0, complete, ncall, hist,
                   pn, pw, ppart, nnz, cmp, ccsr, cache>>

\* step 1, device hd: the gather kernel on queue[d], then the transfer of
\* vals_to_send into rx on squeue[d]
Gather ==
    /\ pc = "gather"
    /\ IF NCols(hd) > 0
       THEN LET g == Cmd("gather", hd, ncall, {}, 0, FALSE)
                r == Cmd("read", hd, ncall, ReadWaitList(EventOf(g)), 0, FALSE)
            IN  /\ queue' = [queue EXCEPT ![hd] = Append(@, g)]
                /\ event1' = [event1 EXCEPT ![hd] = EventOf(g)]
                /\ squeue' = [squeue EXCEPT ![hd] = Append(@, r)]
                /\ event2' = [event2 EXCEPT ![hd] = EventOf(r)]
       ELSE UNCHANGED <<queue, squeue, event1, event2>>
    /\ Advance("local")
    /\ UNCHANGED <<nd, devtype, n, row, col, val, part, mtx, exc, cidx, rx, tlist,
                   remote_cols, x, y, script, stmt, y0, complete, ncall, hist,
                   pn, pw, ppart,
                   nnz, cmp, ccsr, cache>>

\* (mutant) step 2 with mul_local on squeue[d]
LocalOnSecondary ==
    /\ pc = "local"
    /\ IF mtx[hd] # NoEngine
       THEN squeue' = [squeue EXCEPT ![hd] =
                        Append(@, Cmd("local", hd, ncall, {}, stmt.alpha, stmt.append))]
       ELSE UNCHANGED squeue
    /\ Advance(IF Size(rx) > 0 THEN "wait" ELSE "idle")
    /\ UNCHANGED <<nd, devtype, n, row, col, val, part, mtx, exc, cidx, rx, tlist,
                   remote_cols, x, y, script, stmt, y0, queue, event1, event2,
                   complete, ncall, hist, pn, pw, ppart,
                   nnz, cmp, ccsr, cache>>

\* step 2, device hd: mul_local on queue[d]
Local ==
    /\ pc = "local"
    /\ IF mtx[hd] # NoEngine
       THEN queue' = [queue EXCEPT ![hd] =
                        Append(@, Cmd("local", hd, ncall, {}, stmt.alpha, stmt.append))]
       ELSE UNCHANGED queue
    /\ Advance(IF Size(rx) > 0 THEN "wait" ELSE "idle")
    /\ UNCHANGED <<nd, devtype, n, row, col, val, part, mtx, exc, cidx, rx, tlist,
                   remote_cols, x, y, script, stmt, y0, squeue, event1, event2,
                   complete, ncall, hist, pn, pw, ppart,
                   nnz, cmp, ccsr, cache>>

\* step 3, device hd: event2[d][0].wait() when the device supplies columns
Wait ==
    /\ pc = "wait"
    /\ WaitsFor(hd) => event2[hd] \in complete
    /\ Advance("remote")
    /\ UNCHANGED <<nd, devtype, n, row, col, val, part, mtx, exc, cidx, rx, tlist,
                   remote_cols, x, y, script, stmt, y0, queue, squeue, event1,
                   event2, complete, ncall, hist, pn, pw, ppart,
                   nnz, cmp, ccsr, cache>>

\* step 4, device hd: vals_to_recv is filled from rx, uploaded to the ghost
\* buffer on squeue[d], and mul_remote is enqueued on queue[d]
Remote ==
    /\ pc = "remote"
    /\ IF Size(exc[hd].cols_to_recv) > 0
       THEN LET w == Cmd("write", hd, ncall, {}, 0, FALSE)
                r == Cmd("remote", hd, ncall, RemoteWaitList(EventOf(w)),
                         stmt.alpha, TRUE)
            IN  /\ exc' = [exc EXCEPT ![hd].vals_to_recv =
                              [i \in DOMAIN exc[hd].cols_to_recv |->
                                  rx[exc[hd].cols_to_recv[i]]]]
                /\ squeue' = [squeue EXCEPT ![hd] = Append(@, w)]
                /\ event2' = [event2 EXCEPT ![hd] = EventOf(w)]
                /\ queue' = [queue EXCEPT ![hd] = Append(@, r)]
       ELSE UNCHANGED <<exc, squeue, event2, queue>>
    /\ Advance("idle")
    /\ UNCHANGED <<nd, devtype, n, row, col, val, part, mtx, cidx, rx, tlist,
                   remote_cols, x, y, script, stmt, y0, event1, complete, ncall,
                   hist, pn, pw, ppart,
                   nnz, cmp, ccsr, cache>>

\* ----------------------------------------------------------- the devices
\* the ghost buffer as the kernel reads it: a slot never written holds u
Ghost(d, u) ==
    [i \in DOMAIN exc[d].rx |-> IF exc[d].rx[i] = UNDEF THEN u ELSE exc[d].rx[i]]

\* (mutant) every transfer written to the start of rx
ReadOffsetZero(d) == 0

\* where the transfer of device d starts writing: &rx[cidx[d]]
ReadOffset(d) == cidx[d]

\* the staging positions the transfer of device d writes: ncols entries
ReadRange(d) == ReadOffset(d)..(ReadOffset(d) + NCols(d) - 1)

\* the staging positions the host reads when it fills vals_to_recv of device d
ScatterReads(d) == {exc[d].cols_to_recv[i] : i \in DOMAIN exc[d].cols_to_recv}

\* what executing command c does to the buffers
Effect(c) ==
    LET d == c.d IN
    CASE c.op = "gather" ->
            /\ exc' = [exc EXCEPT ![d].vals_to_send =
                          [i \in DOMAIN @ |-> x[d][exc[d].cols_to_send[i]]]]
            /\ UNCHANGED <<rx, y>>
      [] c.op = "read" ->
            /\ rx' = [p \in DOMAIN rx |->
                        IF p \in ReadRange(d)
                        THEN exc[d].vals_to_send[p - ReadOffset(d)] ELSE rx[p]]
            /\ UNCHANGED <<exc, y>>
      [] c.op = "local" ->
            /\ y' = [y EXCEPT ![d] = mul_local(mtx[d], x[d], y[d], c.alpha, c.append)]
            /\ UNCHANGED <<exc, rx>>
      [] c.op = "write" ->
            /\ exc' = [exc EXCEPT ![d].rx = exc[d].vals_to_recv]
            /\ UNCHANGED <<rx, y>>
      [] c.op = "remote" ->
            /\ \E u \in IF \E i \in DOMAIN exc[d].rx : exc[d].rx[i] = UNDEF
                        THEN UninitVals ELSE {0} :
                  y' = [y EXCEPT ![d] = mul_remote(mtx[d], Ghost(d, u), y[d], c.alpha)]
            /\ UNCHANGED <<exc, rx>>
      [] c.op = "assign" ->
            /\ y' = [y EXCEPT ![d] = Slices(EVec(n), part, nd)[d]]
            /\ UNCHANGED <<exc, rx>>

\* a command may run when it heads its in-order queue and its wait-list is complete
Ready(q) == q # << >> /\ Head(q).wait \subseteq complete

\* (mutant) a primary queue that runs its commands in any order
ExecQueueOutOfOrder(d) ==
    /\ \E k \in 1..Len(queue[d]) :
          /\ queue[d][k].wait \subseteq complete
          /\ Effect(queue[d][k])
          /\ complete' = complete \cup {EventOf(queue[d][k])}
          /\ queue' = [queue EXCEPT ![d] =
                          SubSeq(@, 1, k - 1) \o SubSeq(@, k + 1, Len(@))]
    /\ UNCHANGED <<nd, devtype, n, row, col, val, part, mtx, cidx, tlist,
                   remote_cols, x, script, stmt, y0, squeue, event1, event2,
                   ncall, hist, pc, hd, pn, pw, ppart, nnz, cmp, ccsr, cache>>

\* device d executes the command at the head of its primary queue
ExecQueue(d) ==
    /\ Ready(queue[d])
    /\ Effect(Head(queue[d]))
    /\ complete' = complete \cup {EventOf(Head(queue[d]))}
    /\ queue' = [queue EXCEPT ![d] = Tail(@)]
    /\ UNCHANGED <<nd, devtype, n, row, col, val, part, mtx, cidx, tlist,
                   remote_cols, x, script, stmt, y0, squeue, event1, event2,
                   ncall, hist, pc, hd, pn, pw, ppart,
                   nnz, cmp, ccsr, cache>>

\* device d executes the command at the head of its secondary queue
ExecSQueue(d) ==
    /\ Ready(squeue[d])
    /\ Effect(Head(squeue[d]))
    /\ complete' = complete \cup {EventOf(Head(squeue[d]))}
    /\ squeue' = [squeue EXCEPT ![d] = Tail(@)]
    /\ UNCHANGED <<nd, devtype, n, row, col, val, part, mtx, cidx, tlist,
                   remote_cols, x, script, stmt, y0, queue, event1, event2,
                   ncall, hist, pc, hd, pn, pw, ppart,
                   nnz, cmp, ccsr, cache>>

\* ------------------------------------------------------- specifications
\* the device types of k devices: all of one type, or alternating
DevTypes(k) ==
    {[d \in 0..(k - 1) |-> "CPU"], [d \in 0..(k - 1) |-> "GPU"],
     [d \in 0..(k - 1) |-> IF d % 2 = 0 THEN "GPU" ELSE "CPU"],
     [d \in 0..(k - 1) |-> IF d % 2 = 0 THEN "CPU" ELSE "GPU"]}

\* the state before SpMat::SpMat runs, for the matrix m of nn rows, k devices
\* with a partition from P, the caller's vectors gx and gy and its script sc
InitMul(nn, m, k, P, gx, gy, sc) ==
    /\ nd = k
    /\ n = nn
    /\ devtype \in DevTypes(k)
    /\ row = m.row /\ col = m.col /\ val = m.val
    /\ part \in P
    /\ x = Slices(gx, part, k)
    /\ y = Slices(gy, part, k)
    /\ y0 = y
    /\ script = sc
    /\ stmt = NoStmt
    /\ hist = << >>
    /\ mtx = << >> /\ exc = << >> /\ cidx = << >> /\ rx = << >>
    /\ tlist = << >> /\ remote_cols = << >>
    /\ queue = [d \in 0..(k - 1) |-> << >>]
    /\ squeue = [d \in 0..(k - 1) |-> << >>]
    /\ event1 = [d \in 0..(k - 1) |-> NoEvent]
    /\ event2 = [d \in 0..(k - 1) |-> NoEvent]
    /\ complete = {}
    /\ ncall = 0
    /\ pc = "new" /\ hd = 0
    /\ pn = 0 /\ pw = << >> /\ ppart = << >>
    /\ nnz = (IF "nnz" \in DOMAIN m THEN m.nnz ELSE Size(m.col))
    /\ cmp = << >> /\ ccsr = << >> /\ cache = << >>

\* a literal vector
Vec(sq) == [i \in 0..(Len(sq) - 1) |-> sq[i + 1]]

\* one statement on a freshly constructed matrix
Init ==
    \E nn \in 1..MaxN, k \in 1..MaxDev, s \in Stmts :
        \E st \in [0..(nn - 1) -> MulStencils] :
            InitMul(nn, CsrOf(nn, st), k, Partitions(nn, k), XVec(nn), YVec(nn), <<s>>)

Next ==
    \/ Construct
    \/ Statement
    \/ Gather
    \/ Local
    \/ Wait
    \/ Remote
    \/ \E d \in Devs : ExecQueue(d)
    \/ \E d \in Devs : ExecSQueue(d)

Spec == Init /\ [][Next]_vars

\* two calls of mul in a row on the same matrix and vectors
SeqCases(nn) ==
    {[y |-> Zeros(nn), script |-> <<MulStmt(1, TRUE), MulStmt(1, TRUE)>>],
     [y |-> YVec(nn),  script |-> <<MulStmt(1, FALSE), MulStmt(1, TRUE)>>]}

InitSeq ==
    \E nn \in 1..MaxN, k \in 1..MaxDev :
        \E st \in [0..(nn - 1) -> MulStencils], c \in SeqCases(nn) :
            InitMul(nn, CsrOf(nn, st), k, Partitions(nn, k), XVec(nn), c.y, c.script)

SpecSeq == InitSeq /\ [][Next]_vars

\* the scheduling SpMat::mul relies on: the host runs, and every device
\* executes the command at the head of a queue once its wait-list is complete
Fairness ==
    /\ WF_vars(Construct) /\ WF_vars(Statement)
    /\ WF_vars(Gather) /\ WF_vars(Local) /\ WF_vars(Wait) /\ WF_vars(Remote)
    /\ \A d \in 0..(MaxDev - 1) :
          WF_vars(d \in Devs /\ ExecQueue(d)) /\ WF_vars(d \in Devs /\ ExecSQueue(d))

\* two calls of mul on as many rows as devices, on devices of one kind
InitLive ==
    \E k \in 1..MaxDev :
        \E st \in [0..(k - 1) -> {<<Diag>>, <<Right, Diag>>}] :
            /\ InitMul(k, CsrOf(k, st), k, Partitions(k, k), XVec(k), YVec(k),
                       <<MulStmt(1, FALSE), MulStmt(1, TRUE)>>)
            /\ devtype = [d \in 0..(k - 1) |-> "GPU"]

SpecLive == InitLive /\ [][Next]_vars /\ Fairness

\* a matrix of HaloN rows, every row of the same shape with wrap-around, on
\* two devices: one call of mul, or two calls in a row
HaloScripts == {<<MulStmt(2, FALSE)>>, <<MulStmt(-1, TRUE), MulStmt(2, FALSE)>>}

InitHalo ==
    \E s \in {<<Left, Diag, Right>>, <<Right, Diag>>}, sc \in HaloScripts :
        InitMul(HaloN, CsrOf(HaloN, [i \in 0..(HaloN - 1) |-> s]), 2,
                Partitions(HaloN, 2), XVec(HaloN), YVec(HaloN), sc)

SpecHalo == InitHalo /\ [][Next]_vars

\* the 4x4 tridiagonal matrix, 2 on the diagonal and -1 beside it, on two
\* devices holding rows 0-1 and rows 2-3, with x = [1,1,1,1]
TriMatrix ==
    [row |-> Vec(<<0, 2, 5, 8, 10>>),
     col |-> Vec(<<0, 1,  0, 1, 2,  1, 2, 3,  2, 3>>),
     val |-> Vec(<<2, -1,  -1, 2, -1,  -1, 2, -1,  -1, 2>>)]

InitTri ==
    \E s \in Stmts, gy \in {Zeros(4), YVec(4)} :
        InitMul(4, TriMatrix, 2, {Vec(<<0, 2, 4>>)}, Ones(4), gy, <<s>>)

SpecTri == InitTri /\ [][Next]_vars

\* construction alone, on a wider family of matrices
InitBuild ==
    \E nn \in 1..MaxBuildN, k \in 1..MaxDev :
        \E st \in [0..(nn - 1) -> BuildStencils] :
            InitMul(nn, CsrOf(nn, st), k, Partitions(nn, k), XVec(nn), YVec(nn), << >>)

NextBuild == Construct

SpecBuild == InitBuild /\ [][NextBuild]_vars

\* both engines built for one device and run on the same arguments
CmpArgs == {[alpha |-> 2, append |-> FALSE], [alpha |-> -1, append |-> TRUE]}

\* a ghost buffer of k values
GhostVec(k) == [i \in 0..(k - 1) |-> 4 - (3 * i)]

EngineCompare ==
    /\ pc = "idle"
    /\ \E d \in Devs, a \in CmpArgs :
          /\ part[d + 1] > part[d]
          /\ LET e    == SpMatELL(part[d], part[d + 1], remote_cols[d])
                 c    == SpMatCSR(part[d], part[d + 1], remote_cols[d])
                 g    == GhostVec(Cardinality(remote_cols[d]))
                 hasg == remote_cols[d] # {}
             IN  cmp' = [d |-> d, alpha |-> a.alpha, append |-> a.append,
                         ell_local  |-> mul_local(e, x[d], y[d], a.alpha, a.append),
                         csr_local  |-> mul_local(c, x[d], y[d], a.alpha, a.append),
                         ell_remote |-> IF hasg THEN mul_remote(e, g, y[d], a.alpha)
                                        ELSE y[d],
                         csr_remote |-> IF hasg THEN mul_remote(c, g, y[d], a.alpha)
                                        ELSE y[d]]
    /\ pc' = "compared"
    /\ UNCHANGED <<nd, devtype, n, row, col, val, part, mtx, exc, cidx, rx, tlist,
                   remote_cols, x, y, script, stmt, y0, queue, squeue, event1,
                   event2, complete, ncall, hist, hd, pn, pw, ppart, nnz, ccsr, cache>>

InitEngines == InitBuild /\ devtype = [d \in 0..(nd - 1) |-> "GPU"]

NextEngines == Construct \/ EngineCompare

SpecEngines == InitEngines /\ [][NextEngines]_vars

\* a caller who passes arrays col and val of only cut entries each although
\* row[n] is larger: positions cut..row[n]-1 are read beyond the arrays and
\* hold whatever is there, column g and value v
Short(m, cut, g, v) ==
    [row |-> m.row,
     col |-> [j \in DOMAIN m.col |-> IF j < cut THEN m.col[j] ELSE g],
     val |-> [j \in DOMAIN m.val |-> IF j < cut THEN m.val[j] ELSE v],
     nnz |-> cut]

InitBad ==
    \E nn \in 1..MaxN, k \in 1..MaxDev :
        \E st \in [0..(nn - 1) -> MulStencils] :
            \E cut \in 0..(Size(CsrOf(nn, st).col) - 1), g \in 0..(nn - 1), v \in UninitVals :
                InitMul(nn, Short(CsrOf(nn, st), cut, g, v), k, Partitions(nn, k),
                        XVec(nn), YVec(nn), << >>)

SpecBad == InitBad /\ [][NextBuild]_vars

\* ------------------------------------------------ partition_by_spmv_perf
\* cumsum[d]: the weights of the first d devices added up
RECURSIVE Cumsum(_, _)
\* (mutant) the weight of device d - 1 alone
CumsumLast(w, d) == IF d = 0 THEN 0 ELSE w[d - 1]

Cumsum(w, d) == IF d = 0 THEN 0 ELSE Cumsum(w, d - 1) + w[d - 1]

\* (mutant) a boundary without std::min(n, ...)
BoundaryNoMin(nn, cs, total) == alignup((nn * cs) \div total, ALIGN)

\* part[d + 1] = std::min(n, alignup(n * cumsum[d + 1] / cumsum.back()))
Boundary(nn, cs, total) == Min(nn, alignup((nn * cs) \div total, ALIGN))

\* partition_by_spmv_perf(n, queue), w[d] being device_spmv_perf of queue[d]
partition_by_spmv_perf(nn, w) ==
    LET k == Size(w)
    IN  [d \in 0..k |->
            IF d = k THEN nn
            ELSE IF k > 1 /\ d > 0 THEN Boundary(nn, Cumsum(w, d), Cumsum(w, k))
            ELSE 0]

PartitionBySpmvPerf ==
    /\ pc = "part"
    /\ ppart' = partition_by_spmv_perf(pn, pw)
    /\ pc' = "parted"
    /\ UNCHANGED <<nd, devtype, n, row, col, val, part, mtx, exc, cidx, rx, tlist,
                   remote_cols, x, y, script, stmt, y0, queue, squeue, event1,
                   event2, complete, ncall, hist, hd, pn, pw,
                   nnz, cmp, ccsr, cache>>

InitPart ==
    /\ pn \in 0..MaxPartN
    /\ \E k \in 1..MaxPartDev : pw \in [0..(k - 1) -> 1..MaxWeight]
    /\ nd = Size(pw)
    /\ ppart = << >>
    /\ nnz = 0 /\ cmp = << >> /\ ccsr = << >> /\ cache = << >>
    /\ pc = "part" /\ hd = 0
    /\ devtype = << >> /\ n = 0 /\ row = << >> /\ col = << >> /\ val = << >>
    /\ part = << >> /\ mtx = << >> /\ exc = << >> /\ cidx = << >> /\ rx = << >>
    /\ tlist = << >> /\ remote_cols = << >> /\ x = << >> /\ y = << >>
    /\ script = << >> /\ stmt = NoStmt /\ y0 = << >> /\ hist = << >>
    /\ queue = << >> /\ squeue = << >> /\ event1 = << >> /\ event2 = << >>
    /\ complete = {} /\ ncall = 0

NextPart == PartitionBySpmvPerf

SpecPart == InitPart /\ [][NextPart]_vars
\* -------------------------------------------------------------- SpMatCCSR
\* the stencils of a matrix: each a list of <<offset from the diagonal, value>>
CcsrShapes ==
    << <<<<0, 2>>>>,
       <<<<-1, -1>>, <<0, 2>>, <<1, -1>>>>,
       <<<<1, 3>>, <<0, 1>>>>,
       <<<<-1, 5>>>> >>

RECURSIVE Flat(_)
Flat(shapes) == IF shapes = << >> THEN << >> ELSE Head(shapes) \o Flat(Tail(shapes))

\* the constructor's arguments m, row, col, val for a list of stencils
CcsrOf(shapes) ==
    [m   |-> Len(shapes),
     row |-> [k \in 0..Len(shapes) |-> Len(Flat(SubSeq(shapes, 1, k)))],
     col |-> Vec([j \in 1..Len(Flat(shapes)) |-> Flat(shapes)[j][1]]),
     val |-> Vec([j \in 1..Len(Flat(shapes)) |-> Flat(shapes)[j][2]])]

\* the idx arrays that keep every column i + col[j] inside [0, n)
CcsrIdx(nn, shapes) ==
    {f \in [0..(nn - 1) -> 0..(Len(shapes) - 1)] :
        \A i \in 0..(nn - 1) :
            \A e \in 1..Len(shapes[f[i] + 1]) :
                i + shapes[f[i] + 1][e][1] \in 0..(nn - 1)}

\* SpMatCCSR's spmv_set (add = FALSE) and spmv_add (add = TRUE)
ccsr_spmv(nn, cidxv, crow, ccol, cval, xb, yb, alpha, add) ==
    [i \in DOMAIN yb |->
        IF i < nn
        THEN LET pos  == cidxv[i]
                 rng  == crow[pos]..(crow[pos + 1] - 1)
                 sum  == SumOver([j \in rng |-> cval[j] * xb[i + ccol[j]]], rng)
             IN  IF add THEN yb[i] + alpha * sum ELSE alpha * sum
        ELSE yb[i]]

\* SpMatCCSR::SpMatCCSR: the arrays are copied to the device
CcsrConstruct ==
    /\ pc = "ccsr_new"
    /\ ccsr' = [ccsr EXCEPT !.mtx = [idx |-> ccsr.idx, row |-> ccsr.row,
                                     col |-> ccsr.col, val |-> ccsr.val]]
    /\ pc' = "ccsr_idle"
    /\ UNCHANGED <<nd, devtype, n, row, col, val, part, mtx, exc, cidx, rx, tlist,
                   remote_cols, x, y, script, stmt, y0, queue, squeue, event1,
                   event2, complete, ncall, hist, hd, pn, pw, ppart, nnz, cmp, cache>>

\* (mutant) mul enqueuing spmv_set whatever append is
CcsrMulKernelSet(append) == "spmv_set"

\* the kernel SpMatCCSR::mul enqueues
CcsrMulKernel(append) == IF append THEN "spmv_add" ELSE "spmv_set"

\* SpMatCCSR::mul(x, y, alpha, append): one kernel on the queue
CcsrMul ==
    /\ pc = "ccsr_idle"
    /\ Len(ccsr.calls) < MaxCcsrCalls
    /\ \E a \in Alphas, b \in BOOLEAN :
          ccsr' = [ccsr EXCEPT
                      !.calls = Append(@, [alpha |-> a, append |-> b]),
                      !.queue = Append(@, [kernel |-> CcsrMulKernel(b), alpha |-> a])]
    /\ UNCHANGED <<nd, devtype, n, row, col, val, part, mtx, exc, cidx, rx, tlist,
                   remote_cols, x, y, script, stmt, y0, queue, squeue, event1,
                   event2, complete, ncall, hist, pc, hd, pn, pw, ppart, nnz, cmp, cache>>

\* the device runs the kernel at the head of the queue
CcsrExec ==
    /\ pc = "ccsr_idle"
    /\ ccsr.queue # << >>
    /\ LET k == Head(ccsr.queue)
       IN  ccsr' = [ccsr EXCEPT
                       !.y = ccsr_spmv(ccsr.n, ccsr.mtx.idx, ccsr.mtx.row,
                                       ccsr.mtx.col, ccsr.mtx.val, ccsr.x, @,
                                       k.alpha, k.kernel = "spmv_add"),
                       !.queue = Tail(@),
                       !.done = @ + 1]
    /\ UNCHANGED <<nd, devtype, n, row, col, val, part, mtx, exc, cidx, rx, tlist,
                   remote_cols, x, y, script, stmt, y0, queue, squeue, event1,
                   event2, complete, ncall, hist, pc, hd, pn, pw, ppart, nnz, cmp, cache>>

InitCCSR ==
    /\ \E nn \in 1..MaxCcsrN :
          \E f \in CcsrIdx(nn, CcsrShapes) :
              ccsr = [n |-> nn, shapes |-> CcsrShapes, idx |-> f,
                      m |-> CcsrOf(CcsrShapes).m, row |-> CcsrOf(CcsrShapes).row,
                      col |-> CcsrOf(CcsrShapes).col, val |-> CcsrOf(CcsrShapes).val,
                      mtx |-> << >>, x |-> XVec(nn), y |-> YVec(nn),
                      calls |-> << >>, queue |-> << >>, done |-> 0]
    /\ pc = "ccsr_new" /\ hd = 0
    /\ nd = 1 /\ devtype = << >> /\ n = 0 /\ row = << >> /\ col = << >> /\ val = << >>
    /\ part = << >> /\ mtx = << >> /\ exc = << >> /\ cidx = << >> /\ rx = << >>
    /\ tlist = << >> /\ remote_cols = << >> /\ x = << >> /\ y = << >>
    /\ script = << >> /\ stmt = NoStmt /\ y0 = << >> /\ hist = << >>
    /\ queue = << >> /\ squeue = << >> /\ event1 = << >> /\ event2 = << >>
    /\ complete = {} /\ ncall = 0
    /\ pn = 0 /\ pw = << >> /\ ppart = << >>
    /\ nnz = 0 /\ cmp = << >> /\ cache = << >>

NextCCSR == CcsrConstruct \/ CcsrMul \/ CcsrExec

SpecCCSR == InitCCSR /\ [][NextCCSR]_vars

\* ---------------------------------------------------- compiled[context()]
\* the device programs: gather_vals_to_send of SpMat, and spmv_set with
\* spmv_add of SpMatELL, of SpMatCSR and of SpMatCCSR
Programs == {"gather", "ELL", "CSR", "CCSR"}

Contexts == 1..MaxCtx

\* how the queues of a list are spread over contexts: all in one context, or
\* queue d in a context of its own (as far as there are contexts)
CtxLayouts(k) ==
    {[d \in 0..(k - 1) |-> c] : c \in Contexts}
        \cup {[d \in 0..(k - 1) |-> (d % MaxCtx) + 1]}

\* the queue lists handed to SpMat::SpMat: for each queue its context, the
\* type of its device, and whether the partition gives the device rows
\* (part[d + 1] > part[d])
QueueLists ==
    UNION {{[i \in 1..k |-> [ctx  |-> cl[i - 1], type |-> ty[i - 1],
                             rows |-> p[i] > p[i - 1]]] :
                cl \in CtxLayouts(k), ty \in DevTypes(k), p \in Partitions(k, k)} :
            k \in 1..MaxDev}

\* (mutant) a program compiled without compiled[context()] = true
prepare_kernels_unmarked(cch, p, c) ==
    IF c \in cch.compiled[p]
    THEN cch
    ELSE [cch EXCEPT !.builds[p][c] = @ + 1]

\* if (!compiled[context()]) { build_sources ...; compiled[context()] = true; }
prepare_kernels(cch, p, c) ==
    IF c \in cch.compiled[p]
    THEN cch
    ELSE [cch EXCEPT !.compiled[p] = @ \cup {c}, !.builds[p][c] = @ + 1]

\* the engine SpMat::SpMat builds for a device of type ty
EngineKind(ty) == IF ty = "CPU" THEN "CSR" ELSE "ELL"

\* the devices of a queue list that get an engine, in order
WithRows(ql) == SelectSeq(ql, LAMBDA q : q.rows)

\* the compilations SpMat::SpMat asks for, in order: the gather program for
\* the context of every queue, then the program of each engine it builds
SpMatPrograms(ql) ==
    [i \in 1..Len(ql) |-> <<"gather", ql[i].ctx>>]
        \o [i \in 1..Len(WithRows(ql)) |->
              <<EngineKind(WithRows(ql)[i].type), WithRows(ql)[i].ctx>>]

RECURSIVE Compile(_, _)
Compile(cch, steps) ==
    IF steps = << >> THEN cch
    ELSE Compile(prepare_kernels(cch, Head(steps)[1], Head(steps)[2]), Tail(steps))

\* the programs the object built over ql enqueues: the kernels of its engines,
\* and the gather kernel on devices that can supply columns to another device

UsesOf(ql) ==
    {<<EngineKind(WithRows(ql)[i].type), WithRows(ql)[i].ctx>> : i \in 1..Len(WithRows(ql))}
        \cup (IF Len(WithRows(ql)) >= 2
              THEN {<<"gather", WithRows(ql)[i].ctx>> : i \in 1..Len(WithRows(ql))}
              ELSE {})

\* SpMat::SpMat over the queue list ql
NewSpMat ==
    /\ pc = "ctx"
    /\ cache.made < MaxObjects
    /\ \E ql \in QueueLists :
          cache' = [Compile(cache, SpMatPrograms(ql)) EXCEPT
                       !.made = @ + 1,
                       !.uses = @ \cup UsesOf(ql)]
    /\ UNCHANGED <<nd, devtype, n, row, col, val, part, mtx, exc, cidx, rx, tlist,
                   remote_cols, x, y, script, stmt, y0, queue, squeue, event1,
                   event2, complete, ncall, hist, pc, hd, pn, pw, ppart, nnz, cmp,
                   ccsr>>

\* SpMatCCSR::SpMatCCSR over a queue of context c
NewSpMatCCSR ==
    /\ pc = "ctx"
    /\ cache.made < MaxObjects
    /\ \E c \in Contexts :
          cache' = [prepare_kernels(cache, "CCSR", c) EXCEPT
                       !.made = @ + 1,
                       !.uses = @ \cup {<<"CCSR", c>>}]
    /\ UNCHANGED <<nd, devtype, n, row, col, val, part, mtx, exc, cidx, rx, tlist,
                   remote_cols, x, y, script, stmt, y0, queue, squeue, event1,
                   event2, complete, ncall, hist, pc, hd, pn, pw, ppart, nnz, cmp,
                   ccsr>>

InitCache ==
    /\ cache = [compiled |-> [p \in Programs |-> {}],
                builds   |-> [p \in Programs |-> [c \in Contexts |-> 0]],
                made     |-> 0,
                uses     |-> {}]
    /\ pc = "ctx" /\ hd = 0
    /\ nd = 1 /\ devtype = << >> /\ n = 0 /\ row = << >> /\ col = << >> /\ val = << >>
    /\ part = << >> /\ mtx = << >> /\ exc = << >> /\ cidx = << >> /\ rx = << >>
    /\ tlist = << >> /\ remote_cols = << >> /\ x = << >> /\ y = << >>
    /\ script = << >> /\ stmt = NoStmt /\ y0 = << >> /\ hist = << >>
    /\ queue = << >> /\ squeue = << >> /\ event1 = << >> /\ event2 = << >>
    /\ complete = {} /\ ncall = 0
    /\ pn = 0 /\ pw = << >> /\ ppart = << >>
    /\ nnz = 0 /\ cmp = << >> /\ ccsr = << >>

NextCache == NewSpMat \/ NewSpMatCCSR

SpecCache == InitCache /\ [][NextCache]_vars

\* ------------------------------------------------------------ the claims
\* the device owning global row (and column) i
Owner(i) == CHOOSE d \in Devs : part[d] <= i /\ i < part[d + 1]

\* the global vector held by the buffers v
GlobalOf(v) == [i \in 0..(n - 1) |-> v[Owner(i)][i - part[Owner(i)]]]

\* row i of the dense reference product A g, from the constructor's triplet
RowDot(i, g) == SumOver([j \in RowRange(i) |-> val[j] * g[col[j]]], RowRange(i))

AX == [i \in 0..(n - 1) |-> RowDot(i, GlobalOf(x))]

\* the host has returned from its last statement and every command has run
Quiescent ==
    /\ pc = "idle"
    /\ script = << >>
    /\ hist # << >>
    /\ \A d \in Devs : queue[d] = << >> /\ squeue[d] = << >>

HasGhosts(d) == remote_cols[d] # {}

\* C1: once all operations of mul(x, y, alpha, false) have completed,
\* y[i] = alpha * (sum over the nonzeros j of row i of val[j] * x[col[j]]) for
\* every row i, whatever y held before and whichever engine each device uses
C1_MulSetsProduct ==
    (Quiescent /\ Len(hist) = 1 /\ ~stmt.append) =>
        \A i \in 0..(n - 1) : GlobalOf(y)[i] = stmt.alpha * AX[i]

C1_Witness ==
    /\ Quiescent /\ Len(hist) = 1 /\ stmt.op = "mul" /\ ~stmt.append
    /\ nd = 2
    /\ \A d \in Devs : HasGhosts(d)
    /\ devtype[0] # devtype[1]
    /\ GlobalOf(y) # GlobalOf(y0)

\* the events of call c that are complete
Done(c, op, d) == <<c, op, d>> \in complete

\* C4: y = A*x leaves A x in y, y += A*x leaves y0 + A x, y -= A*x leaves
\* y0 - A x, y = e + A*x leaves e + A x and y = e - A*x leaves e - A x; they
\* call mul with (alpha, append) = (1, false), (1, true), (-1, true) and, after
\* e was assigned to y, (1, true) and (-1, true)
C4_VectorOperators ==
    Len(hist) = 1 =>
        LET o  == hist[1].op
            yg == GlobalOf(y)
            yi == GlobalOf(y0)
            e  == EVec(n)
        IN  /\ o = "="   => stmt.alpha = 1 /\ ~stmt.append
            /\ o = "+="  => stmt.alpha = 1 /\ stmt.append
            /\ o = "-="  => stmt.alpha = -1 /\ stmt.append
            /\ o = "=e+" => stmt.alpha = 1 /\ stmt.append
            /\ o = "=e-" => stmt.alpha = -1 /\ stmt.append
            /\ \A d \in Devs :
                  Done(1, "local", d) => (o \in {"=e+", "=e-"} <=> Done(1, "assign", d))
            /\ Quiescent =>
                  \A i \in 0..(n - 1) :
                      /\ o = "="   => yg[i] = AX[i]
                      /\ o = "+="  => yg[i] = yi[i] + AX[i]
                      /\ o = "-="  => yg[i] = yi[i] - AX[i]
                      /\ o = "=e+" => yg[i] = e[i] + AX[i]
                      /\ o = "=e-" => yg[i] = e[i] - AX[i]

C4_Witness ==
    /\ Quiescent /\ Len(hist) = 1 /\ hist[1].op = "=e-"
    /\ nd = 2
    /\ \A d \in Devs : HasGhosts(d)
    /\ \E i \in 0..(n - 1) : AX[i] # 0

\* the commands waiting in a queue
Pending(q) == {q[k] : k \in 1..Len(q)}

\* C5: the remote multiply of a device with ghost columns never runs before
\* the scatter upload of the same call into that device's ghost buffer has
\* completed: its wait-list holds that upload's completion event
C5_RemoteAfterScatter ==
    \A d \in Devs :
        /\ \A c \in 1..ncall : Done(c, "remote", d) => Done(c, "write", d)
        /\ \A q \in Pending(queue[d]) :
              q.op = "remote" => <<q.call, "write", d>> \in q.wait
        /\ (pc = "idle" /\ ncall > 0 /\ HasGhosts(d)) =>
              \/ Done(ncall, "remote", d)
              \/ \E q \in Pending(queue[d]) : q.op = "remote" /\ q.call = ncall

C5_Witness ==
    /\ nd = 2
    /\ \A d \in Devs : Done(1, "remote", d) /\ HasGhosts(d)

\* C6: while the host reads the staging array (step 4), the device-to-host
\* transfers of all devices with a non-empty supply range issued in this call
\* have completed, so every staging entry read was written by one of them
C6_StagingReadAfterTransfers ==
    pc = "remote" =>
        /\ Size(rx) > 0
        /\ \A d \in Devs : NCols(d) > 0 => Done(ncall, "read", d)
        /\ \A p \in DOMAIN rx :
              \E d \in Devs :
                  cidx[d] <= p /\ p < cidx[d + 1] /\ Done(ncall, "read", d)

C6_Witness ==
    /\ pc = "remote" /\ hd = 1
    /\ nd = 2
    /\ \A d \in Devs : NCols(d) > 0 /\ HasGhosts(d)

\* C2: with x unchanged between the calls, mul(x, y, 1, true) twice from a
\* zero y, and mul(x, y, 1, false) followed by mul(x, y, 1, true) from any y,
\* both leave y = 2 * A x once everything has completed
C2_TwoCallsDouble ==
    (Quiescent /\ Len(hist) = 2) =>
        /\ hist[2] = MulStmt(1, TRUE)
        /\ hist[1] \in {MulStmt(1, TRUE), MulStmt(1, FALSE)}
        /\ hist[1].append => GlobalOf(y0) = Zeros(n)
        /\ \A i \in 0..(n - 1) : GlobalOf(y)[i] = 2 * AX[i]

C2_Witness ==
    /\ Quiescent /\ Len(hist) = 2 /\ ~hist[1].append
    /\ nd = 2
    /\ \A d \in Devs : HasGhosts(d)
    /\ \A i \in 0..(n - 1) : AX[i] # 0 /\ GlobalOf(y0)[i] # 0

\* C3: for the 4x4 tridiagonal matrix on two devices with rows 0-1 and 2-3,
\* device 0 needs column 2 and device 1 needs column 1, the transfer list is
\* [1, 2], each device supplies exactly one entry, and mul with x = ones,
\* alpha = 1, append = false gives y = [1, 0, 0, 1]
C3_Tridiagonal ==
    pc \in {"idle", "gather", "local", "wait", "remote"} =>
        /\ remote_cols[0] = {2}
        /\ remote_cols[1] = {1}
        /\ tlist = Vec(<<1, 2>>)
        /\ NCols(0) = 1 /\ NCols(1) = 1
        /\ exc[0].cols_to_send = Vec(<<1>>) /\ exc[1].cols_to_send = Vec(<<0>>)
        /\ (Quiescent /\ hist[1].op = "=") => GlobalOf(y) = Vec(<<1, 0, 0, 1>>)

C3_Witness ==
    /\ Quiescent /\ hist[1].op = "="
    /\ devtype[0] # devtype[1]
    /\ GlobalOf(y0) # Zeros(4)
    /\ GlobalOf(y) = Vec(<<1, 0, 0, 1>>)

\* the slots of one half (loc or rem) of engine m that hold entries of its row k
HalfSlots(m, h, k) ==
    IF m.kind = "ELL"
    THEN {p \in {k + (j * m.pitch) : j \in 0..(h.w - 1)} : h.col[p] # ncol}
    ELSE IF Size(h.row) = 0 THEN {} ELSE h.row[k]..(h.row[k + 1] - 1)

\* the global column of ghost number g of device d
GhostCol(d, g) == tlist[exc[d].cols_to_recv[g]]

\* C7: for both engines and every row of a device, the entries of the local
\* half have columns inside the device's row range, those of the remote half
\* outside it, and the local entries (column + first row) together with the
\* remote entries (column mapped back through the ghost numbering) are the
\* multiset of (column, value) pairs the row had at construction
C7_SplitRoundTrip ==
    pc = "idle" =>
        \A d \in Devs : mtx[d].kind # "none" =>
            \A k \in 0..(mtx[d].n - 1) :
                LET m     == mtx[d]
                    i     == part[d] + k
                    L     == HalfSlots(m, m.loc, k)
                    R     == HalfSlots(m, m.rem, k)
                    gl(p) == m.loc.col[p] + part[d]
                    gr(p) == GhostCol(d, m.rem.col[p])
                IN  /\ \A p \in L : IsLocal(gl(p), part[d], part[d + 1])
                    /\ \A p \in R :
                          /\ m.rem.col[p] \in DOMAIN exc[d].cols_to_recv
                          /\ ~IsLocal(gr(p), part[d], part[d + 1])
                    /\ Cardinality(L) + Cardinality(R) = Cardinality(RowRange(i))
                    /\ \A j \in RowRange(i) :
                          Cardinality({jj \in RowRange(i) :
                                          col[jj] = col[j] /\ val[jj] = val[j]})
                          = Cardinality({p \in L : gl(p) = col[j]
                                                   /\ m.loc.val[p] = val[j]})
                            + Cardinality({p \in R : gr(p) = col[j]
                                                     /\ m.rem.val[p] = val[j]})

C7_Witness ==
    /\ pc = "idle"
    /\ \E d, e \in Devs :
          /\ mtx[d].kind = "ELL" /\ mtx[e].kind = "CSR"
          /\ \E k \in 0..(mtx[d].n - 1) :
                /\ HalfSlots(mtx[d], mtx[d].loc, k) # {}
                /\ Cardinality(HalfSlots(mtx[d], mtx[d].rem, k)) >= 2
          /\ \E k \in 0..(mtx[e].n - 1) :
                /\ HalfSlots(mtx[e], mtx[e].loc, k) # {}
                /\ HalfSlots(mtx[e], mtx[e].rem, k) # {}

\* C8: after setup_exchange with something to exchange, cidx[0] = 0, cidx is
\* non-decreasing and ends at the length of the transfer list, every position
\* of the list lies in the range [cidx[d], cidx[d+1]) of exactly one device,
\* that device owns the column at the position, and some device has the column
\* among its ghost points; with nothing to exchange cidx stays empty
C8_SupplyRanges ==
    pc = "idle" =>
        IF Size(tlist) = 0
        THEN Size(cidx) = 0
        ELSE /\ Size(cidx) = nd + 1
             /\ cidx[0] = 0
             /\ cidx[nd] = Size(tlist)
             /\ \A d \in Devs : cidx[d] <= cidx[d + 1]
             /\ \A p \in 0..(Size(tlist) - 1) :
                   /\ Cardinality({d \in Devs : cidx[d] <= p /\ p < cidx[d + 1]}) = 1
                   /\ \A d \in Devs :
                         (cidx[d] <= p /\ p < cidx[d + 1]) =>
                             /\ IsLocal(tlist[p], part[d], part[d + 1])
                             /\ exc[d].cols_to_send[p - cidx[d]] + part[d] = tlist[p]
                   /\ \E e \in Devs : tlist[p] \in remote_cols[e]

C8_Witness ==
    /\ pc = "idle"
    /\ nd = 2
    /\ Size(tlist) >= 2
    /\ cidx[1] > 0 /\ cidx[2] > cidx[1]
    /\ part[1] = tlist[cidx[1]]

\* the weights of the devices in the first k positions, added up
PrefixWeight(w, k) == SumOver(w, 0..(k - 1))

\* the boundary alignment would give before it is limited to n
Unlimited(d) == alignup((pn * PrefixWeight(pw, d)) \div PrefixWeight(pw, Size(pw)), ALIGN)

\* C9: for n >= 0 rows, d >= 1 devices and positive weights the boundaries
\* have b[0] = 0 and b[d] = n and never decrease; the last one is n even when
\* rounding up to the alignment would exceed n, and a device may get no rows
C9_Boundaries ==
    pc = "parted" =>
        /\ Size(ppart) = Size(pw) + 1
        /\ ppart[0] = 0
        /\ ppart[Size(pw)] = pn
        /\ \A d \in 0..(Size(pw) - 1) : ppart[d] <= ppart[d + 1]

C9_Witness ==
    /\ pc = "parted"
    /\ Size(pw) >= 2
    /\ pn > 0
    /\ \E d \in 1..(Size(pw) - 1) : Unlimited(d) > pn
    /\ \E d \in 0..(Size(pw) - 1) : ppart[d] = ppart[d + 1]

\* the orders the devices can be listed in
Orders(k) == {f \in [0..(k - 1) -> 0..(k - 1)] : \A a, b \in 0..(k - 1) : f[a] = f[b] => a = b}

\* the weights when the devices are listed in order f
Reordered(w, f) == [d \in DOMAIN w |-> w[f[d]]]

\* C10 as stated: the same devices listed in any other order, with the same
\* n, get the same boundary sequence
C10_OrderIndependent ==
    pc = "parted" =>
        \A f \in Orders(Size(pw)) :
            partition_by_spmv_perf(pn, Reordered(pw, f)) = ppart

\* C10, amended: listing the same devices in another order leaves boundary k
\* unchanged whenever the devices in the first k positions have the same
\* total weight in both orders
C10_PrefixWeightDetermines ==
    pc = "parted" =>
        \A f \in Orders(Size(pw)) :
            \A k \in 0..Size(pw) :
                PrefixWeight(Reordered(pw, f), k) = PrefixWeight(pw, k) =>
                    partition_by_spmv_perf(pn, Reordered(pw, f))[k] = ppart[k]

C10_Witness ==
    /\ pc = "parted"
    /\ Size(pw) = 3
    /\ \E f \in Orders(3) :
          /\ f[0] # 0 /\ pw[f[0]] # pw[0]
          /\ PrefixWeight(Reordered(pw, f), 2) = PrefixWeight(pw, 2)
          /\ partition_by_spmv_perf(pn, Reordered(pw, f))[1] # ppart[1]
          /\ ppart[2] > ppart[1] /\ ppart[2] < pn

\* the events of the commands issued so far, and the commands of call c with
\* operation op still waiting in queue q
IssuedEvents ==
    complete \cup UNION {{EventOf(q) : q \in Pending(queue[d]) \cup Pending(squeue[d])} :
                            d \in Devs}

Waiting(q, c, op) == {k \in 1..Len(q) : q[k].call = c /\ q[k].op = op}

\* device d's local multiply of call c was issued exactly once
LocalOnce(c, d) ==
    Cardinality(Waiting(queue[d], c, "local"))
        + (IF Done(c, "local", d) THEN 1 ELSE 0) = 1

\* the host is past step 2 of call c
PastLocal(c) == c < ncall \/ pc = "idle"

C12_NothingToExchange ==
    (pc # "new" /\ \A d \in Devs : remote_cols[d] = {}) =>
        /\ Size(tlist) = 0 /\ Size(rx) = 0 /\ Size(cidx) = 0
        /\ \A d \in Devs :
              /\ Size(exc[d].cols_to_send) = 0 /\ Size(exc[d].vals_to_send) = 0
              /\ Size(exc[d].rx) = 0
              /\ Size(exc[d].cols_to_recv) = 0 /\ Size(exc[d].vals_to_recv) = 0
              /\ squeue[d] = << >>
              /\ event1[d] = NoEvent /\ event2[d] = NoEvent
              /\ \A c \in 1..ncall :
                    PastLocal(c) =>
                        IF part[d + 1] > part[d]
                        THEN LocalOnce(c, d)
                        ELSE Waiting(queue[d], c, "local") = {} /\ ~Done(c, "local", d)
        /\ pc \in {"idle", "local"}
        /\ \A e \in IssuedEvents : e[2] \in {"local", "assign"}

C12_Witness ==
    /\ nd = 2 /\ n = 2
    /\ Quiescent /\ ncall = 2
    /\ \A d \in Devs : remote_cols[d] = {} /\ part[d + 1] > part[d]
    /\ \A d \in Devs : Done(1, "local", d) /\ Done(2, "local", d)

\* C13: built from the same rows, matrix and ghost set and given the same x,
\* ghost buffer, alpha, append and y, the ELL and the CSR engine produce the
\* same y from mul_local, and the same y from mul_remote
C13_EnginesAgree ==
    pc = "compared" =>
        /\ cmp.ell_local = cmp.csr_local
        /\ cmp.ell_remote = cmp.csr_remote

C13_Witness ==
    /\ pc = "compared"
    /\ part[cmp.d + 1] - part[cmp.d] >= 2
    /\ remote_cols[cmp.d] # {}
    /\ cmp.append
    /\ \E k \in DOMAIN y[cmp.d] : cmp.ell_local[k] # y[cmp.d][k]
    /\ \E k \in DOMAIN y[cmp.d] : cmp.ell_remote[k] # y[cmp.d][k]
    /\ LET e == SpMatELL(part[cmp.d], part[cmp.d + 1], remote_cols[cmp.d])
       IN  /\ \E p \in DOMAIN e.loc.col : e.loc.col[p] = ncol /\ p % e.pitch < e.n
           /\ \E p \in DOMAIN e.rem.col : e.rem.col[p] = ncol /\ p % e.pitch < e.n

\* C14: y(d) has one entry per row of device d, and in every step an output
\* buffer y(e) changes only when device e runs a command of its own primary
\* queue (a local or remote multiply, or the assignment of an expression):
\* no device's multiply writes the output rows of another device
C14_OwnRowsOnly ==
    /\ [](\A e \in Devs : DOMAIN y[e] = 0..(part[e + 1] - part[e] - 1))
    /\ [][\A e \in Devs :
            y'[e] # y[e] =>
                /\ queue[e] # << >>
                /\ queue'[e] = Tail(queue[e])
                /\ Head(queue[e]).d = e
                /\ Head(queue[e]).op \in {"local", "remote", "assign"}
                /\ DOMAIN y'[e] = DOMAIN y[e]]_vars

C14_Witness ==
    /\ Quiescent /\ ncall = 2
    /\ nd = 2
    /\ \A d \in Devs :
          /\ HasGhosts(d)
          /\ Done(2, "local", d) /\ Done(2, "remote", d)
          /\ y[d] # y0[d]

\* C15 as stated: the ranges of distinct devices are disjoint and each device
\* both writes and reads only its own range of the staging array: the scatter
\* of device d reads no position inside another device's range
C15_OwnRangeOnly ==
    (pc # "new" /\ Size(rx) > 0) =>
        \A d \in Devs :
            /\ \A e \in Devs \ {d} : ReadRange(d) \cap ReadRange(e) = {}
            /\ ScatterReads(d) \subseteq ReadRange(d)

\* C15, amended: the ranges [cidx[d], cidx[d+1]) of distinct devices are
\* disjoint and the transfer of device d writes only inside its own range; the
\* scatter for device d reads the positions of d's ghost columns, all of which
\* lie in the ranges of other devices and none in its own
C15_WritesOwnReadsOthers ==
    /\ []((pc # "new" /\ Size(rx) > 0) =>
            \A d \in Devs :
                /\ ReadRange(d) \subseteq DOMAIN rx
                /\ \A e \in Devs \ {d} : ReadRange(d) \cap ReadRange(e) = {}
                /\ ScatterReads(d) \cap ReadRange(d) = {}
                /\ ScatterReads(d) \subseteq UNION {ReadRange(e) : e \in Devs \ {d}})
    /\ [][\A p \in DOMAIN rx :
            rx'[p] # rx[p] =>
                \E d \in Devs :
                    /\ squeue[d] # << >>
                    /\ squeue'[d] = Tail(squeue[d])
                    /\ Head(squeue[d]).op = "read" /\ Head(squeue[d]).d = d
                    /\ p \in ReadRange(d)]_vars

C15_Witness ==
    /\ pc = "remote" /\ hd = 1
    /\ nd = 2
    /\ \A d \in Devs : NCols(d) > 0 /\ ScatterReads(d) # {}
    /\ \E i \in DOMAIN exc[0].vals_to_recv : exc[0].vals_to_recv[i] # 0
    /\ \A p \in DOMAIN rx : rx[p] # 0

\* the host takes a step of its loop
HostStep == <<pc, hd>>' # <<pc, hd>>

Last(q) == q[Len(q)]

\* C16 as stated: the gather and the transfer of step 1 are both enqueued on
\* the secondary queue and neither on the primary queue
C16_GatherOnSecondaryQueue ==
    \A d \in Devs :
        /\ \A q \in Pending(queue[d]) : q.op \notin {"gather", "read"}
        /\ \A c \in 1..ncall :
              (c < ncall \/ pc # "gather" \/ hd > d) /\ pc # "new" /\ Size(rx) > 0
              /\ NCols(d) > 0 /\ ~Done(c, "gather", d)
                  => Waiting(squeue[d], c, "gather") # {}

\* C16, amended: in step 1, for each device with a non-empty supply range, the
\* gather is enqueued on the device's primary queue and the transfer on its
\* secondary queue, with the gather's event as the transfer's wait-list; the
\* primary queue never holds a transfer and the secondary never a gather
C16_GatherOnPrimaryQueue ==
    /\ [](\A d \in Devs :
            /\ \A q \in Pending(queue[d]) :
                  q.op \in {"assign", "gather", "local", "remote"}
            /\ \A q \in Pending(squeue[d]) :
                  /\ q.op \in {"read", "write"}
                  /\ q.op = "read" => q.wait = {<<q.call, "gather", d>>})
    /\ [][(pc = "gather" /\ HostStep /\ NCols(hd) > 0) =>
            /\ Len(queue'[hd]) = Len(queue[hd]) + 1
            /\ Last(queue'[hd]).op = "gather" /\ Last(queue'[hd]).call = ncall
            /\ Len(squeue'[hd]) = Len(squeue[hd]) + 1
            /\ Last(squeue'[hd]).op = "read" /\ Last(squeue'[hd]).call = ncall]_vars

C16_Witness ==
    /\ nd = 2
    /\ pc = "local" /\ hd = 0
    /\ Size(rx) > 0
    /\ \A d \in Devs :
          /\ NCols(d) > 0
          /\ Waiting(queue[d], ncall, "gather") # {}
          /\ Waiting(squeue[d], ncall, "read") # {}

\* C17 as stated: the local multiply of device d has no ordering dependency on
\* d's gather and transfer of the same call: nothing of that pipeline is ahead
\* of it in its queue or in its wait-list, so it may start before the gather
\* has completed
C17_LocalIndependentOfPipeline ==
    \A d \in Devs :
        \A k \in 1..Len(queue[d]) :
            queue[d][k].op = "local" =>
                /\ queue[d][k].wait = {}
                /\ \A j \in 1..(k - 1) :
                      ~(queue[d][j].op \in {"gather", "read"}
                        /\ queue[d][j].call = queue[d][k].call)

\* C17, amended: the local multiply of device d waits for no event and shares
\* no queue with the transfer, so it can run while the transfer of the same
\* call is still pending; but on a device that supplies columns it is behind
\* the gather of the same call in the in-order primary queue and never runs
\* before that gather has completed
C17_LocalAfterGatherOnly ==
    \A d \in Devs :
        /\ \A q \in Pending(queue[d]) : q.op = "local" => q.wait = {}
        /\ \A q \in Pending(queue[d]) : q.op # "read"
        /\ \A q \in Pending(squeue[d]) : q.op # "local"
        /\ \A c \in 1..ncall :
              (Size(rx) > 0 /\ Done(c, "local", d)) =>
                  (NCols(d) > 0 => Done(c, "gather", d))

C17_Witness ==
    /\ nd = 2
    /\ Size(rx) > 0
    /\ \A d \in Devs :
          /\ NCols(d) > 0
          /\ Done(1, "local", d)
          /\ Waiting(squeue[d], 1, "read") # {}
          /\ y[d] # y0[d]

\* row i of the product, from the stencil the row selects: the sum over the
\* stencil's entries <<offset, value>> of value * x[i + offset]
CcsrRowSum(i) ==
    LET st == ccsr.shapes[ccsr.idx[i] + 1]
    IN  SumOver([e \in 1..Len(st) |-> st[e][2] * ccsr.x[i + st[e][1]]], 1..Len(st))

\* C18: every call mul(x, y, alpha, append) of the CCSR matrix enqueues one
\* kernel and nothing else; when it has run, y[i] = alpha * sum (append false)
\* or y[i] + alpha * sum (append true) for every row i < n, where sum adds
\* val[j] * x[i + col[j]] over the stencil row[idx[i]]..row[idx[i]+1]-1, rows
\* with the same idx entry using the same offsets and values
C18_CcsrProduct ==
    /\ [](Len(ccsr.queue) + ccsr.done = Len(ccsr.calls))
    /\ [][ccsr.done' # ccsr.done =>
            LET a == ccsr.calls[ccsr.done + 1]
            IN  /\ ccsr.done' = ccsr.done + 1
                /\ DOMAIN ccsr.y' = 0..(ccsr.n - 1)
                /\ \A i \in 0..(ccsr.n - 1) :
                      ccsr.y'[i] = (IF a.append THEN ccsr.y[i] ELSE 0)
                                   + a.alpha * CcsrRowSum(i)]_vars

C18_Witness ==
    /\ ccsr.done = 2 /\ ccsr.n = 3
    /\ ~ccsr.calls[1].append /\ ccsr.calls[2].append
    /\ ccsr.idx[0] = 2 /\ ccsr.idx[1] = 1 /\ ccsr.idx[2] = 3
    /\ \A i \in 0..2 : ccsr.y[i] # YVec(3)[i]

\* C19 as stated: when mul has returned, every operation it issued is
\* complete: nothing is left in any queue
C19_ReturnsWhenComplete ==
    (pc = "idle" /\ ncall > 0) =>
        \A d \in Devs : queue[d] = << >> /\ squeue[d] = << >>

\* C19, amended: when mul has returned, every operation of the call has been
\* issued, and the gathers and transfers of the devices that supply columns
\* are complete (step 3 waited for them); the local multiplies, the uploads
\* and the remote multiplies may still be pending in their queues
C19_IssuedOnReturn ==
    (pc = "idle" /\ ncall > 0) =>
        \A d \in Devs :
            /\ mtx[d] # NoEngine => <<ncall, "local", d>> \in IssuedEvents
            /\ Size(rx) > 0 =>
                  /\ NCols(d) > 0 =>
                        Done(ncall, "gather", d) /\ Done(ncall, "read", d)
                  /\ HasGhosts(d) =>
                        /\ <<ncall, "write", d>> \in IssuedEvents
                        /\ <<ncall, "remote", d>> \in IssuedEvents

C19_Witness ==
    /\ pc = "idle" /\ ncall = 1
    /\ nd = 2
    /\ Size(rx) > 0
    /\ \A d \in Devs :
          /\ NCols(d) > 0 /\ HasGhosts(d)
          /\ Waiting(queue[d], 1, "local") # {}
          /\ Waiting(squeue[d], 1, "write") # {}
          /\ Waiting(queue[d], 1, "remote") # {}

\* C20 as stated: when row[n] does not match the number of nonzeros the caller
\* supplied, construction fails and no matrix object is produced
C20_InconsistentRejected ==
    nnz # row[n] => pc # "idle"

\* C20, amended: construction does not validate its input: when row[n] exceeds
\* the number of nonzeros supplied it raises no error and produces a matrix
\* object whose engines hold row[i+1] - row[i] entries for every row i, those
\* beyond the supplied arrays being whatever was read there
C20_NoValidation ==
    /\ pc \in {"new", "idle"}
    /\ pc = "idle" =>
          \A d \in Devs :
              /\ mtx[d] # NoEngine <=> part[d + 1] > part[d]
              /\ mtx[d] # NoEngine =>
                    \A k \in 0..(mtx[d].n - 1) :
                        Cardinality(HalfSlots(mtx[d], mtx[d].loc, k))
                          + Cardinality(HalfSlots(mtx[d], mtx[d].rem, k))
                        = row[part[d] + k + 1] - row[part[d] + k]

C20_Witness ==
    /\ pc = "idle"
    /\ nnz < row[n]
    /\ nd = 2
    /\ \E d \in Devs :
          /\ mtx[d] # NoEngine
          /\ \E p \in DOMAIN mtx[d].loc.val : mtx[d].loc.val[p] = 7

\* C21 as stated: each program is compiled at most once per context, the
\* context is marked compiled exactly when it was, and no program is compiled
\* for a context in which nothing built so far uses it
C21_CompiledOnlyWhereUsed ==
    \A p \in Programs, c \in Contexts :
        /\ cache.builds[p][c] <= 1
        /\ c \in cache.compiled[p] <=> cache.builds[p][c] = 1
        /\ c \in cache.compiled[p] => <<p, c>> \in cache.uses

\* C21, amended: each program is compiled at most once per context, and that
\* by the first construction that asks for it, which marks the context; later
\* constructions reuse it. The ELL, CSR and CCSR programs are compiled exactly
\* for the contexts in which an engine of that kind was built; the gather
\* program is compiled for the context of every queue given to SpMat::SpMat,
\* also where nothing is ever gathered
C21_CompiledOncePerContext ==
    /\ [](\A p \in Programs, c \in Contexts :
            /\ cache.builds[p][c] <= 1
            /\ c \in cache.compiled[p] <=> cache.builds[p][c] = 1
            /\ <<p, c>> \in cache.uses => c \in cache.compiled[p]
            /\ (p # "gather" /\ c \in cache.compiled[p]) => <<p, c>> \in cache.uses)
    /\ [][\A p \in Programs, c \in Contexts :
            /\ cache.compiled[p] \subseteq cache'.compiled[p]
            /\ cache'.builds[p][c] =
                  cache.builds[p][c]
                    + (IF c \in cache'.compiled[p] \ cache.compiled[p] THEN 1 ELSE 0)]_vars

C21_Witness ==
    /\ cache.made = 3
    /\ cache.builds["gather"][1] = 1 /\ cache.builds["ELL"][1] = 1
    /\ cache.builds["CCSR"][1] = 1
    /\ cache.uses = {<<"ELL", 1>>, <<"CCSR", 1>>}
    /\ \A p \in Programs : 2 \notin cache.compiled[p]

\* C22: every call of mul returns and every command it issued completes, given
\* that the host runs and that a command at the head of a queue whose wait-list
\* is complete is eventually executed. A wait of step 3 is on the transfer
\* issued in step 1 of the same call for the same device, and the wait-list of
\* every pending command names only commands already issued
C22_MulCompletes ==
    /\ []((pc = "wait" /\ WaitsFor(hd)) =>
            /\ event2[hd] = <<ncall, "read", hd>>
            /\ event2[hd] \in IssuedEvents)
    /\ [](pc # "new" =>
            \A d \in Devs :
                \A q \in Pending(queue[d]) \cup Pending(squeue[d]) :
                    q.wait \subseteq IssuedEvents)
    /\ <>[]Quiescent

C22_Witness ==
    /\ pc = "wait" /\ hd = 1 /\ ncall = 2
    /\ nd = 2
    /\ WaitsFor(0) /\ ~WaitsFor(1) /\ HasGhosts(1)
    /\ Waiting(squeue[1], 1, "write") # {}
    /\ Waiting(queue[0], 2, "local") # {}

ColumnsOfRows(d) ==
    {c \in 0..(n - 1) :
        \E i \in part[d]..(part[d + 1] - 1) : \E j \in RowRange(i) : col[j] = c}

\* C24: the transfer list is strictly increasing in global column index, its
\* elements are the union of the devices' ghost sets, and the ghost set of
\* device d is the set of columns its rows refer to outside [part[d], part[d+1])
C24_TransferListSorted ==
    pc = "idle" =>
        /\ DOMAIN tlist = 0..(Size(tlist) - 1)
        /\ \A p \in DOMAIN tlist : \A q \in DOMAIN tlist : p < q => tlist[p] < tlist[q]
        /\ {tlist[p] : p \in DOMAIN tlist} = UNION {remote_cols[d] : d \in Devs}
        /\ \A d \in Devs :
              remote_cols[d] = ColumnsOfRows(d) \ (part[d]..(part[d + 1] - 1))

C24_Witness ==
    /\ pc = "idle"
    /\ nd = 2
    /\ Size(tlist) = 3
    /\ \A d \in Devs : remote_cols[d] # {}
    /\ \E i \in 0..(n - 1) : \E j \in RowRange(i), jj \in RowRange(i) :
          j # jj /\ col[j] = col[jj] /\ col[j] \in remote_cols[Owner(i)]

\* the transfer-list positions device d supplies
Supplied(d) == IF Size(tlist) = 0 THEN {} ELSE cidx[d]..(cidx[d + 1] - 1)

\* C25: once the host is past the waits of step 3, rx[p] = x[T[p]] for every
\* position p of the transfer list T; the send index of position p of device
\* d's segment is T[p] - part[d], inside [0, part[d+1] - part[d]); a completed
\* gather has left x_d[T[p] - part[d]] in vals_to_send[p - cidx[d]]
C25_StagingHoldsX ==
    /\ pc = "remote" => \A p \in DOMAIN rx : rx[p] = GlobalOf(x)[tlist[p]]
    /\ pc # "new" =>
          \A d \in Devs : \A p \in Supplied(d) :
              /\ exc[d].cols_to_send[p - cidx[d]] = tlist[p] - part[d]
              /\ tlist[p] - part[d] >= 0
              /\ tlist[p] - part[d] < part[d + 1] - part[d]
              /\ Done(ncall, "gather", d) =>
                    exc[d].vals_to_send[p - cidx[d]] = x[d][tlist[p] - part[d]]

C25_Witness ==
    /\ pc = "remote"
    /\ ncall = 2
    /\ Size(rx) = 3
    /\ \A d \in Devs : Supplied(d) # {} /\ Done(2, "gather", d)
    /\ \E p \in Supplied(0) : tlist[p] - part[0] > 0
    /\ part[1] > 0
    /\ \A p \in DOMAIN rx : \A q \in DOMAIN rx : p # q => rx[p] # rx[q]

\* the pairs <<c, k>> of a remote column c of the caller's matrix and the
\* ghost index k the engine of device d stores in its place
Rewritten(d) ==
    LET beg == part[d]
        end == part[d + 1]
        m   == mtx[d]
    IN  IF m = NoEngine THEN {}
        ELSE IF m.kind = "ELL"
        THEN {<<col[RemoteJ(i, beg, end)[j]], m.rem.col[(i - beg) + j * m.pitch]>> :
                 <<i, j>> \in {ij \in (beg..(end - 1)) \X (0..(m.rem.w - 1)) :
                                  ij[2] < Size(RemoteJ(ij[1], beg, end))}}
        ELSE {<<col[RemoteAllJ(beg, end, end)[p]], m.rem.col[p]>> :
                 p \in DOMAIN m.rem.col}

\* C26: where the engine of device d stores ghost index k for column c, c is
\* the k-th smallest element of RemoteColumnSet[d] and cols_to_recv[d][k] is
\* the position of c in the transfer list, so after the scatter upload ghost
\* slot k holds x[c]; cols_to_recv[d] has |RemoteColumnSet[d]| entries and is
\* strictly increasing
C26_GhostNumbering ==
    pc # "new" =>
        \A d \in Devs :
            /\ {ck[1] : ck \in Rewritten(d)} = remote_cols[d]
            /\ \A ck \in Rewritten(d) :
                  /\ ck[2] = Cardinality({b \in remote_cols[d] : b < ck[1]})
                  /\ tlist[exc[d].cols_to_recv[ck[2]]] = ck[1]
                  /\ Done(ncall, "write", d) =>
                        exc[d].rx[ck[2]] = GlobalOf(x)[ck[1]]
            /\ Size(exc[d].cols_to_recv) = Cardinality(remote_cols[d])
            /\ DOMAIN exc[d].cols_to_recv = 0..(Cardinality(remote_cols[d]) - 1)
            /\ \A k \in DOMAIN exc[d].cols_to_recv :
                  \A l \in DOMAIN exc[d].cols_to_recv :
                      k < l => exc[d].cols_to_recv[k] < exc[d].cols_to_recv[l]

C26_Witness ==
    /\ pc = "idle"
    /\ nd = 2
    /\ mtx[0] # NoEngine /\ mtx[0].kind = "ELL"
    /\ mtx[1] # NoEngine /\ mtx[1].kind = "CSR"
    /\ Cardinality(remote_cols[0]) = 2
    /\ exc[0].cols_to_recv[0] = 1
    /\ remote_cols[1] # {}
    /\ ncall = 2
    /\ Done(2, "write", 0) /\ Done(2, "write", 1)
    /\ exc[0].rx[0] # exc[0].rx[1]

\* the nonzeros of row i that are local to [beg, end), and those that are not
LocalNz(i, beg, end) == {j \in RowRange(i) : beg <= col[j] /\ col[j] < end}
RemoteNz(i, beg, end) == RowRange(i) \ LocalNz(i, beg, end)

\* the half h of an ELL engine holds, for the nonzero sets nz of the rows and
\* the rewritten columns rw: width = max over the rows of |nz|; entry j of row
\* k at k + j * pitch; every other slot the sentinel with value 0
EllHalfOk(h, pitch, beg, end, nz, rw) ==
    /\ \A i \in beg..(end - 1) : Cardinality(nz[i]) <= h.w
    /\ \E i \in beg..(end - 1) : Cardinality(nz[i]) = h.w
    /\ DOMAIN h.col = 0..(pitch * h.w - 1)
    /\ DOMAIN h.val = DOMAIN h.col
    /\ \A p \in DOMAIN h.col :
          LET k == p % pitch
              j == p \div pitch
          IN  IF k < end - beg /\ j < Cardinality(nz[beg + k])
              THEN LET e == SortedVec(nz[beg + k])[j]
                   IN  /\ h.col[p] = rw[e]
                       /\ h.val[p] = val[e]
                       /\ h.col[p] # ncol
              ELSE h.col[p] = ncol /\ h.val[p] = 0

\* C27: in an ELL engine loc.w is the largest number of local nonzeros of a
\* row and rem.w the largest number of remote nonzeros; entry j of row k is at
\* k + j * pitch, pitch the row count rounded up to a multiple of 16; every
\* other slot holds the sentinel column and adds nothing to the row sum; no
\* rewritten column equals the sentinel
C27_EllLayout ==
    pc = "idle" =>
        \A d \in Devs :
            (mtx[d] # NoEngine /\ mtx[d].kind = "ELL") =>
                LET m   == mtx[d]
                    beg == part[d]
                    end == part[d + 1]
                    nn  == end - beg
                    lnz == [i \in beg..(end - 1) |-> LocalNz(i, beg, end)]
                    rnz == [i \in beg..(end - 1) |-> RemoteNz(i, beg, end)]
                    lrw == [e \in row[beg]..(row[end] - 1) |-> col[e] - beg]
                    rrw == [e \in row[beg]..(row[end] - 1) |->
                               Cardinality({b \in remote_cols[d] : b < col[e]})]
                IN  /\ m.n = nn
                    /\ m.pitch % ALIGN = 0 /\ m.pitch >= nn /\ m.pitch - nn < ALIGN
                    /\ EllHalfOk(m.loc, m.pitch, beg, end, lnz, lrw)
                    /\ EllHalfOk(m.rem, m.pitch, beg, end, rnz, rrw)
                    /\ \A k \in 0..(nn - 1) :
                          mul_local(m, x[d], y[d], 1, FALSE)[k] =
                              SumOver([e \in lnz[beg + k] |-> val[e] * x[d][col[e] - beg]],
                                      lnz[beg + k])

C27_Witness ==
    /\ pc = "idle"
    /\ nd = 2
    /\ \E d \in Devs :
          /\ mtx[d] # NoEngine /\ mtx[d].kind = "ELL"
          /\ mtx[d].n = 2
          /\ mtx[d].loc.w = 2 /\ mtx[d].rem.w = 1
          /\ \E p \in DOMAIN mtx[d].loc.col :
                p % mtx[d].pitch < 2 /\ mtx[d].loc.col[p] = ncol
          /\ \E p \in DOMAIN mtx[d].rem.col :
                p % mtx[d].pitch < 2 /\ mtx[d].rem.col[p] = ncol
          /\ \E p \in DOMAIN mtx[d].rem.col : mtx[d].rem.col[p] # ncol

\* the calls whose scatter upload to device d is enqueued and has not run
PendingUploads(d) == {c.call : c \in {e \in Pending(squeue[d]) : e.op = "write"}}

\* C28: the host has never filled vals_to_recv of a device with ghost columns
\* for a later call (the fill is followed at once by that call's upload) while
\* the upload an earlier call enqueued from that array is still pending
C28_NoFillWhileUploadPending ==
    \A d \in Devs :
        (pc # "new" /\ HasGhosts(d)) =>
            \A c1 \in PendingUploads(d) : \A c2 \in 1..ncall :
                c1 < c2 => ~(c2 \in PendingUploads(d) \/ Done(c2, "write", d))

\* C29: the upload of a later call does not write the ghost buffer of device d
\* while the remote multiply of an earlier call has not completed
C29_NoUploadBeforeRemoteDone ==
    \A d \in Devs : \A c1 \in 1..ncall : \A c2 \in 1..ncall :
        (c1 < c2 /\ HasGhosts(d) /\ Done(c2, "write", d)) => Done(c1, "remote", d)

\* C30: for a device with ghost columns the remote multiply of a call runs
\* after the local multiply of the same call has completed: while both are
\* enqueued the local one is ahead on the primary queue, the remote one is
\* never enqueued or complete without the local one, and with append = false
\* the result after the remote multiply of the last call is alpha * A x, local
\* and remote contributions both in it
C30_RemoteAfterLocal ==
    pc # "new" =>
        \A d \in Devs : HasGhosts(d) =>
            /\ \A c \in 1..ncall :
                  /\ Done(c, "remote", d) => Done(c, "local", d)
                  /\ \A k \in Waiting(queue[d], c, "remote") :
                        \/ Done(c, "local", d)
                        \/ \E l \in Waiting(queue[d], c, "local") : l < k
                  /\ Waiting(squeue[d], c, "remote") = {}
                  /\ Waiting(squeue[d], c, "local") = {}
            /\ (ncall > 0 /\ ~stmt.append /\ Done(ncall, "remote", d)) =>
                  \A i \in part[d]..(part[d + 1] - 1) :
                      y[d][i - part[d]] = stmt.alpha * RowDot(i, GlobalOf(x))

C30_Witness ==
    /\ pc # "new"
    /\ nd = 2
    /\ ncall = 2
    /\ ~stmt.append
    /\ \A d \in Devs :
          /\ HasGhosts(d)
          /\ Done(2, "remote", d)
          /\ \E i \in part[d]..(part[d + 1] - 1) :
                /\ y[d][i - part[d]] # mul_local(mtx[d], x[d], y[d], stmt.alpha, FALSE)[i - part[d]]
                /\ y[d][i - part[d]] # y0[d][i - part[d]]
====
